---- MODULE Spec2Model ----
(***************************************************************************)
(* A model of src/stats.rs of cargo-cacher: the SQLite-backed download     *)
(* statistics (Database), the bounded channel returned by stat_collector   *)
(* and the worker thread that drains it.                                   *)
(***************************************************************************)
EXTENDS Integers, Sequences, FiniteSets, TLC

\* ------------------------------------------------------------------ bounds

\* The observations a run may submit when arbitrary observations are drawn.
MaxSubmits == 3

\* The observations a run may submit while every reporting function is called.
MaxReportSubmits == 2

\* How many submit calls beyond the channel's capacity a bulk run may make.
MaxOver == 2

\* The clock stops advancing after this many days.
MaxDays == 1

\* ------------------------------------------------------- program constants

\* sync_channel::<CargoRequest>(10)
Capacity == 10

\* date('now') yields the UTC calendar date: the clock is kept in hours.
HoursPerDay == 24

\* The calendar year of day 0 of the clock, and the length of a year in days.
EpochYear == 2016
DaysPerYear == 365

\* ------------------------------------------------------------------ inputs

Obs(n, v, h, s) == [name |-> n, version |-> v, hit |-> h, size |-> s]

\* CargoRequest values the request handlers send: three crates, two versions
\* of one crate and one version of two.
IngestObservations ==
    { Obs("serde", "1.0.0", TRUE, 2048),
      Obs("serde", "1.0.1", TRUE, 1024),
      Obs("libc", "1.0.0", TRUE, 1024),
      Obs("rand", "1.0.0", FALSE, 1024) }

\* CargoRequest values sent while the statistics are read: a miss and hits,
\* of two sizes.
ReportObservations ==
    { Obs("serde", "1.0.0", FALSE, 2048),
      Obs("serde", "1.0.0", TRUE, 2048),
      Obs("serde", "1.0.1", TRUE, 1024) }

\* The single observation of a bulk run, which fills the channel.
BulkObservations == { Obs("serde", "1.0.0", TRUE, 2048) }

Observations ==
    IngestObservations \union ReportObservations \union BulkObservations

NoObs == Obs("", "", FALSE, 0)

Producers == {"p1", "p2"}

\* ------------------------------------------------------- SQLite's values

NullV == [type |-> "null", kind |-> "null", v |-> 0]
IntV(n) == [type |-> "integer", kind |-> "integer", v |-> n]
\* The text 'YYYY-MM-DD' of day d of the clock.
DateText(d) == [type |-> "text", kind |-> "date", v |-> d]
\* The text '<n> hours'.
HoursText(n) == [type |-> "text", kind |-> "hours", v |-> n]

\* date('now') at clock t (hours).
SqlDateNow(t) == DateText(t \div HoursPerDay)

\* CAST(x AS NUMERIC) as an arithmetic operator applies it: the longest
\* numeric prefix of a text, 0 when there is none. The prefix of
\* 'YYYY-MM-DD' is the year, the prefix of '<n> hours' is n.
SqlToNumeric(x) ==
    CASE x.type = "integer" -> x.v
      [] x.kind = "date" -> EpochYear + (x.v \div DaysPerYear)
      [] x.kind = "hours" -> x.v
      [] OTHER -> 0

\* a - b
SqlMinus(a, b) ==
    IF a.type = "null" \/ b.type = "null"
    THEN NullV
    ELSE IntV(SqlToNumeric(a) - SqlToNumeric(b))

\* The order of storage classes: NULL, then INTEGER, then TEXT.
SqlClassRank(x) ==
    CASE x.type = "null" -> 0
      [] x.type = "integer" -> 1
      [] OTHER -> 2

\* a > b as a WHERE term: a value of class INTEGER is less than any TEXT; two
\* values of one class compare by value (ISO dates compare as their days).
\* A comparison with NULL is NULL, which a WHERE clause treats as false.
SqlGreater(a, b) ==
    IF a.type = "null" \/ b.type = "null" THEN FALSE
    ELSE IF SqlClassRank(a) # SqlClassRank(b)
         THEN SqlClassRank(a) > SqlClassRank(b)
         ELSE a.v > b.v

\* time > date('now') - $1
WhereTime(row, t, window) ==
    SqlGreater(row.time, SqlMinus(SqlDateNow(t), window))

RECURSIVE SumSizes(_)
SumSizes(rows) ==
    IF rows = <<>> THEN 0 ELSE Head(rows).size + SumSizes(Tail(rows))

\* sum(size): NULL over no row.
SqlSum(rows) == IF rows = <<>> THEN NullV ELSE IntV(SumSizes(rows))

\* COALESCE(x, d)
SqlCoalesce(x, d) == IF x.type = "null" THEN d ELSE x

\* ---------------------------------------------------------- the tables

\* The id an AUTOINCREMENT table gives its next row.
NextId(rows) == Len(rows) + 1

NoneId == [some |-> FALSE, id |-> 0]
SomeId(i) == [some |-> TRUE, id |-> i]

\* INSERT OR IGNORE INTO crates (name) VALUES ($1), under unique_crate_names.
InsertOrIgnoreCrateDup(rows, name) ==
    Append(rows, [id |-> NextId(rows), name |-> name])

InsertOrIgnoreCrate(rows, name) ==
    IF \E i \in 1..Len(rows) : rows[i].name = name
    THEN rows
    ELSE Append(rows, [id |-> NextId(rows), name |-> name])

\* SELECT id FROM crates WHERE name = $1: the first row's id.
CrateId(rows, name) ==
    LET hit == SelectSeq(rows, LAMBDA r : r.name = name)
    IN IF hit = <<>> THEN NoneId ELSE SomeId(Head(hit).id)

\* INSERT OR REPLACE INTO crate_versions: the row in conflict is deleted and
\* a new one, with a new id, inserted.
InsertOrReplaceVersion(rows, crate_id, version) ==
    Append(SelectSeq(rows, LAMBDA r : ~(r.crate_id = crate_id
                                          /\ r.version = version)),
           [id |-> NextId(rows), version |-> version, crate_id |-> crate_id])

\* INSERT OR IGNORE INTO crate_versions (crate_id, version), under
\* unique_crate_versions.
InsertOrIgnoreVersion(rows, crate_id, version) ==
    IF \E i \in 1..Len(rows) :
          rows[i].crate_id = crate_id /\ rows[i].version = version
    THEN rows
    ELSE Append(rows, [id |-> NextId(rows), version |-> version,
                       crate_id |-> crate_id])

\* SELECT id FROM crate_versions WHERE crate_id = $1: the version left out.
VersionIdOfCrate(rows, crate_id, version) ==
    LET hit == SelectSeq(rows, LAMBDA r : r.crate_id = crate_id)
    IN IF hit = <<>> THEN NoneId ELSE SomeId(Head(hit).id)

\* SELECT id FROM crate_versions WHERE crate_id = $1 AND version = $2.
VersionId(rows, crate_id, version) ==
    LET hit == SelectSeq(rows,
                   LAMBDA r : r.crate_id = crate_id /\ r.version = version)
    IN IF hit = <<>> THEN NoneId ELSE SomeId(Head(hit).id)

\* INSERT INTO downloads (version_id, time, hit, size)
\*   VALUES ($1, date('now'), $2, $3)
InsertDownload(rows, version_id, t, hit, size) ==
    Append(rows, [version_id |-> version_id, time |-> SqlDateNow(t),
                  hit |-> hit, size |-> size])

\* The statement of add_request that fails, if one does.
StoreFaults ==
    {"none", "insert_crate", "crate_id", "insert_version", "version_id",
     "insert_download"}

\* Database::add_request on the tables db at clock t. The two INSERT OR IGNORE
\* and the two id lookups are unwrapped: a failure panics the calling thread
\* with the statements before it already applied. The result of the INSERT
\* INTO downloads is discarded and Ok(()) returned.
AddRequest(db, req, t, fault) ==
    LET crates1 == InsertOrIgnoreCrate(db.crates, req.name)
        cid == CrateId(crates1, req.name)
        versions1 == InsertOrIgnoreVersion(db.crate_versions, cid.id,
                                           req.version)
        vid == VersionId(versions1, cid.id, req.version)
        applied1 == [db EXCEPT !.crates = crates1]
        applied2 == [db EXCEPT !.crates = crates1,
                               !.crate_versions = versions1]
    IN IF fault = "insert_crate"
       THEN [db |-> db, outcome |-> "panic"]
       ELSE IF fault = "crate_id" \/ ~cid.some
       THEN [db |-> applied1, outcome |-> "panic"]
       ELSE IF fault = "insert_version"
       THEN [db |-> applied1, outcome |-> "panic"]
       ELSE IF fault = "version_id" \/ ~vid.some
       THEN [db |-> applied2, outcome |-> "panic"]
       ELSE IF fault = "insert_download"
       THEN [db |-> applied2, outcome |-> "ok"]
       ELSE [db |-> [applied2 EXCEPT !.downloads =
                        InsertDownload(db.downloads, vid.id, t,
                                       req.hit, req.size)],
             outcome |-> "ok"]

\* How a query of the reporting functions fails, if it does: "prepare", which
\* is unwrapped, or "query", the query_map or the row it yields, which end in
\* the same return.
QueryFaults == {"none", "prepare", "query"}

\* Database::downloads: SELECT count(*) ... WHERE time > date('now') - $1
Downloads(rows, t, window, fault) ==
    IF fault = "query"
    THEN 0
    ELSE Len(SelectSeq(rows, LAMBDA r : WhereTime(r, t, window)))

\* Database::hits: ... AND hit = 1
Hits(rows, t, window, fault) ==
    IF fault = "query"
    THEN 0
    ELSE Len(SelectSeq(rows, LAMBDA r : WhereTime(r, t, window) /\ r.hit))

\* Database::bandwidth_saved: SELECT COALESCE(sum(size), 0) ... AND hit = 1
BandwidthSaved(rows, t, window, fault) ==
    IF fault = "query"
    THEN 0
    ELSE SqlCoalesce(
             SqlSum(SelectSeq(rows,
                        LAMBDA r : WhereTime(r, t, window) /\ r.hit)),
             IntV(0)).v

\* let misses = downloads - hits;
StatsMissesSwapped(downloads_, hits_) == hits_ - downloads_

StatsMisses(downloads_, hits_) == downloads_ - hits_

\* The window Database::stats passes to its three queries.
StatsWindow == HoursText(24)

\* The windows a caller of downloads, hits and bandwidth_saved passes.
Windows == { HoursText(12), HoursText(24) }

\* ------------------------------------------------------------- the state

VARIABLES
    crates,          \* table crates: rows [id, name]
    crate_versions,  \* table crate_versions: rows [id, version, crate_id]
    downloads,       \* table downloads: rows [version_id, time, hit, size]
    queue,           \* the channel's buffer
    worker,          \* the spawned thread: "running", "exited", "panicked"
    pstate,          \* per producer: "none", "idle", "blocked", "dropped"
    pending,         \* per producer: the observation a blocked send holds
    now,             \* the clock, in hours
    reader,          \* the thread inside Database::stats
    result,          \* the call that returned in the last step, and what
    accepted,        \* history: the observations whose send returned Ok
    run,             \* the environment of this run
    submitsLeft      \* the send calls this run may still make

vars ==
    <<crates, crate_versions, downloads, queue, worker, pstate, pending,
      now, reader, result, accepted, run, submitsLeft>>

tables == <<crates, crate_versions, downloads>>
producerVars == <<pstate, pending>>

Db == [crates |-> crates, crate_versions |-> crate_versions,
       downloads |-> downloads]

\* The reader outside stats. Inside, it holds the counts read so far, and two
\* notes: quiet (see Returned) and whether a query of this call has failed.
ReaderIdle ==
    [pc |-> "idle", downloads |-> 0, hits |-> 0, quiet |-> FALSE,
     fault |-> FALSE]

\* What a call returned, with two notes on the call. quiet, of a reporting
\* call: the worker had drained when the call began, and nothing was recorded
\* and no day passed while it ran. fault: the statement that failed in it.
Returned(op, status, window, value, quiet, fault) ==
    [op |-> op, status |-> status, window |-> window, value |-> value,
     quiet |-> quiet, fault |-> fault]

NoResult == Returned("none", "none", NullV, 0, FALSE, "none")

\* What a send returned that had parked on the full buffer: r, with the note
\* that it had parked.
Parked(r) ==
    [op |-> r.op, status |-> r.status, window |-> r.window,
     value |-> r.value, quiet |-> r.quiet, fault |-> r.fault,
     parked |-> TRUE]

\* The reporting functions of Database.
Reports == {"stats", "downloads", "hits", "bandwidth_saved", "crates"}

\* The environments checked: the request handlers that send (which
\* observations, how many sends, from which threads), the reporting functions
\* a status endpoint calls, and for how many days the run lasts.
Runs ==
    { [obs |-> IngestObservations, sends |-> MaxSubmits,
       producers |-> Producers, calls |-> {"crates"}, days |-> 0],
      [obs |-> ReportObservations, sends |-> MaxReportSubmits,
       producers |-> {"p1"}, calls |-> Reports, days |-> MaxDays],
      [obs |-> BulkObservations, sends |-> Capacity + MaxOver,
       producers |-> Producers, calls |-> {}, days |-> 0] }

\* The receiver lives in the worker's closure: it is dropped, and the channel
\* disconnected, when the thread ends.
ReceiverLeaked == FALSE

ReceiverDropped == worker # "running"

\* A SyncSender exists: a producer holds one, idle or inside send.
HandleHeld == \E p \in Producers : pstate[p] \in {"idle", "blocked"}

\* Every accepted observation has been received and add_request has returned
\* for it.
Drained == queue = <<>> /\ worker # "panicked"

\* The state stat_collector returns in: the tables created and empty, the
\* worker spawned, one SyncSender handed to the caller.
Init ==
    /\ crates = <<>>
    /\ crate_versions = <<>>
    /\ downloads = <<>>
    /\ queue = <<>>
    /\ worker = "running"
    /\ pstate = [p \in Producers |-> IF p = "p1" THEN "idle" ELSE "none"]
    /\ pending = [p \in Producers |-> NoObs]
    /\ now = 0
    /\ reader = ReaderIdle
    /\ result = NoResult
    /\ accepted = <<>>
    /\ run \in Runs
    /\ submitsLeft = run.sends

\* ------------------------------------------------------------ producers

\* SyncSender::clone: producer q gets a handle from producer p.
Clone(p, q) ==
    /\ pstate[p] = "idle"
    /\ q \in run.producers
    /\ pstate[q] = "none"
    /\ pstate' = [pstate EXCEPT ![q] = "idle"]
    /\ result' = NoResult
    /\ UNCHANGED <<tables, queue, worker, pending, now, reader, accepted,
                   run, submitsLeft>>

\* A send that fails on a full buffer instead of waiting, as try_send does.
SubmitTry(p, o) ==
    /\ pstate[p] = "idle"
    /\ submitsLeft > 0
    /\ o \in run.obs
    /\ submitsLeft' = submitsLeft - 1
    /\ IF ReceiverDropped \/ Len(queue) >= Capacity
       THEN /\ result' = Returned("send", "err", NullV, o, FALSE, "none")
            /\ UNCHANGED <<queue, accepted>>
       ELSE /\ queue' = Append(queue, o)
            /\ accepted' = Append(accepted, o)
            /\ result' = Returned("send", "ok", NullV, o, FALSE, "none")
    /\ UNCHANGED <<tables, worker, pstate, pending, now, reader, run>>

\* A send on a channel without a bound, as channel() gives: it never parks.
SubmitUnbounded(p, o) ==
    /\ pstate[p] = "idle"
    /\ submitsLeft > 0
    /\ o \in run.obs
    /\ submitsLeft' = submitsLeft - 1
    /\ IF ReceiverDropped
       THEN /\ result' = Returned("send", "err", NullV, o, FALSE, "none")
            /\ UNCHANGED <<queue, accepted>>
       ELSE /\ queue' = Append(queue, o)
            /\ accepted' = Append(accepted, o)
            /\ result' = Returned("send", "ok", NullV, o, FALSE, "none")
    /\ UNCHANGED <<tables, worker, pstate, pending, now, reader, run>>

\* SyncSender::send(o) on the channel of capacity 10: Err when the receiver is
\* gone, the observation buffered when there is room, the caller parked
\* otherwise.
Submit(p, o) ==
    /\ pstate[p] = "idle"
    /\ submitsLeft > 0
    /\ o \in run.obs
    /\ submitsLeft' = submitsLeft - 1
    /\ IF ReceiverDropped
       THEN /\ result' = Returned("send", "err", NullV, o, FALSE, "none")
            /\ UNCHANGED <<queue, accepted, pstate, pending>>
       ELSE IF Len(queue) < Capacity
       THEN /\ queue' = Append(queue, o)
            /\ accepted' = Append(accepted, o)
            /\ result' = Returned("send", "ok", NullV, o, FALSE, "none")
            /\ UNCHANGED <<pstate, pending>>
       ELSE /\ pstate' = [pstate EXCEPT ![p] = "blocked"]
            /\ pending' = [pending EXCEPT ![p] = o]
            /\ result' = NoResult
            /\ UNCHANGED <<queue, accepted>>
    /\ UNCHANGED <<tables, worker, now, reader, run>>

\* A parked send that is woken only by a free slot, not by the receiver
\* going away.
SubmitWakeOnSlot(p) ==
    /\ pstate[p] = "blocked"
    /\ ~ReceiverDropped
    /\ Len(queue) < Capacity
    /\ queue' = Append(queue, pending[p])
    /\ accepted' = Append(accepted, pending[p])
    /\ result' = Parked(Returned("send", "ok", NullV, pending[p], FALSE,
                                 "none"))
    /\ pstate' = [pstate EXCEPT ![p] = "idle"]
    /\ pending' = [pending EXCEPT ![p] = NoObs]
    /\ UNCHANGED <<tables, worker, now, reader, run, submitsLeft>>

\* A parked send wakes: Err when the receiver is gone, the observation
\* buffered when a slot is free.
SubmitWake(p) ==
    /\ pstate[p] = "blocked"
    /\ IF ReceiverDropped
       THEN /\ result' = Parked(Returned("send", "err", NullV, pending[p],
                                         FALSE, "none"))
            /\ UNCHANGED <<queue, accepted>>
       ELSE /\ Len(queue) < Capacity
            /\ queue' = Append(queue, pending[p])
            /\ accepted' = Append(accepted, pending[p])
            /\ result' = Parked(Returned("send", "ok", NullV, pending[p],
                                         FALSE, "none"))
    /\ pstate' = [pstate EXCEPT ![p] = "idle"]
    /\ pending' = [pending EXCEPT ![p] = NoObs]
    /\ UNCHANGED <<tables, worker, now, reader, run, submitsLeft>>

\* A producer drops its SyncSender.
DropHandle(p) ==
    /\ pstate[p] = "idle"
    /\ pstate' = [pstate EXCEPT ![p] = "dropped"]
    /\ result' = NoResult
    /\ UNCHANGED <<tables, queue, worker, pending, now, reader, accepted,
                   run, submitsLeft>>

\* --------------------------------------------------------------- worker

\* A worker that receives the newest buffered observation instead of the
\* oldest.
WorkerRecvLast(fault) ==
    /\ worker = "running"
    /\ queue # <<>>
    /\ LET r == AddRequest(Db, queue[Len(queue)], now, fault)
       IN /\ crates' = r.db.crates
          /\ crate_versions' = r.db.crate_versions
          /\ downloads' = r.db.downloads
          /\ result' = Returned("add_request", r.outcome, NullV,
                                queue[Len(queue)], FALSE, fault)
          /\ IF r.outcome = "panic"
             THEN worker' = "panicked" /\ queue' = <<>>
             ELSE worker' = worker
                  /\ queue' = SubSeq(queue, 1, Len(queue) - 1)
    /\ reader' = [reader EXCEPT !.quiet = FALSE]
    /\ UNCHANGED <<producerVars, now, accepted, run, submitsLeft>>

\* One turn of the worker's loop with an observation buffered: recv returns
\* it and add_request records it. A panic inside add_request ends the thread,
\* which drops the receiver and what the buffer still holds.
WorkerRecv(fault) ==
    /\ worker = "running"
    /\ queue # <<>>
    /\ LET r == AddRequest(Db, Head(queue), now, fault)
       IN /\ crates' = r.db.crates
          /\ crate_versions' = r.db.crate_versions
          /\ downloads' = r.db.downloads
          /\ result' = Returned("add_request", r.outcome, NullV, Head(queue),
                                FALSE, fault)
          /\ IF r.outcome = "panic"
             THEN worker' = "panicked" /\ queue' = <<>>
             ELSE worker' = worker /\ queue' = Tail(queue)
    /\ reader' = [reader EXCEPT !.quiet = FALSE]
    /\ UNCHANGED <<producerVars, now, accepted, run, submitsLeft>>

\* recv returns Err, and the loop breaks, once the buffer is empty and every
\* SyncSender has been dropped.
WorkerExit ==
    /\ worker = "running"
    /\ queue = <<>>
    /\ ~HandleHeld
    /\ worker' = "exited"
    /\ result' = NoResult
    /\ UNCHANGED <<tables, queue, producerVars, now, reader, accepted, run,
                   submitsLeft>>

\* ---------------------------------------------------------------- clock

\* A day passes.
Tick ==
    /\ now + HoursPerDay <= run.days * HoursPerDay
    /\ now' = now + HoursPerDay
    /\ reader' = [reader EXCEPT !.quiet = FALSE]
    /\ result' = NoResult
    /\ UNCHANGED <<tables, queue, worker, producerVars, accepted, run,
                   submitsLeft>>

\* ------------------------------------------------------------ reporting

readerFrame ==
    <<tables, queue, worker, producerVars, now, accepted, run, submitsLeft>>

\* Database::stats, line 86: let downloads = self.downloads("24 hours");
StatsDownloads(fault) ==
    /\ "stats" \in run.calls
    /\ reader.pc = "idle"
    /\ IF fault = "prepare"
       THEN /\ result' = Returned("stats", "panic", StatsWindow, 0, Drained,
                                  fault)
            /\ reader' = ReaderIdle
       ELSE /\ reader' = [pc |-> "hits",
                          downloads |-> Downloads(downloads, now, StatsWindow,
                                                  fault),
                          hits |-> 0,
                          quiet |-> Drained,
                          fault |-> fault # "none"]
            /\ result' = NoResult
    /\ UNCHANGED readerFrame

\* Database::stats, lines 87-88: let hits = self.hits("24 hours");
StatsHits(fault) ==
    /\ reader.pc = "hits"
    /\ IF fault = "prepare"
       THEN /\ result' = Returned("stats", "panic", StatsWindow, 0,
                                  reader.quiet, fault)
            /\ reader' = ReaderIdle
       ELSE /\ reader' = [reader EXCEPT
                              !.pc = "bandwidth",
                              !.hits = Hits(downloads, now, StatsWindow,
                                            fault),
                              !.fault = @ \/ fault # "none"]
            /\ result' = NoResult
    /\ UNCHANGED readerFrame

\* Database::stats, lines 88-95: misses, bandwidth_saved and the Statistics
\* value returned.
StatsBandwidth(fault) ==
    /\ reader.pc = "bandwidth"
    /\ IF fault = "prepare"
       THEN result' = Returned("stats", "panic", StatsWindow, 0, reader.quiet,
                               fault)
       ELSE result' = Returned("stats", "ok", StatsWindow,
                [downloads |-> reader.downloads,
                 hits |-> reader.hits,
                 misses |-> StatsMisses(reader.downloads, reader.hits),
                 bandwidth_saved |->
                     BandwidthSaved(downloads, now, StatsWindow, fault)],
                reader.quiet,
                IF reader.fault \/ fault # "none" THEN "query" ELSE "none")
    /\ reader' = ReaderIdle
    /\ UNCHANGED readerFrame

\* A caller's Database::downloads(window).
QueryDownloads(window, fault) ==
    /\ "downloads" \in run.calls
    /\ reader.pc = "idle"
    /\ IF fault = "prepare"
       THEN result' = Returned("downloads", "panic", window, 0, Drained,
                               fault)
       ELSE result' = Returned("downloads", "ok", window,
                               Downloads(downloads, now, window, fault),
                               Drained, fault)
    /\ UNCHANGED <<reader, readerFrame>>

\* A caller's Database::hits(window).
QueryHits(window, fault) ==
    /\ "hits" \in run.calls
    /\ reader.pc = "idle"
    /\ IF fault = "prepare"
       THEN result' = Returned("hits", "panic", window, 0, Drained, fault)
       ELSE result' = Returned("hits", "ok", window,
                               Hits(downloads, now, window, fault),
                               Drained, fault)
    /\ UNCHANGED <<reader, readerFrame>>

\* A caller's Database::bandwidth_saved(window).
QueryBandwidth(window, fault) ==
    /\ "bandwidth_saved" \in run.calls
    /\ reader.pc = "idle"
    /\ IF fault = "prepare"
       THEN result' = Returned("bandwidth_saved", "panic", window, 0,
                               Drained, fault)
       ELSE result' = Returned("bandwidth_saved", "ok", window,
                               BandwidthSaved(downloads, now, window, fault),
                               Drained, fault)
    /\ UNCHANGED <<reader, readerFrame>>

\* Database::crates: SELECT id, name FROM crates, every row or the first
\* error.
Crates(rows, fault) ==
    IF fault = "prepare" THEN [status |-> "panic", value |-> <<>>]
    ELSE IF fault = "query"
    THEN [status |-> "err", value |-> <<>>]
    ELSE [status |-> "ok", value |-> rows]

\* A caller's Database::crates().
QueryCrates(fault) ==
    /\ "crates" \in run.calls
    /\ reader.pc = "idle"
    /\ LET r == Crates(crates, fault)
       IN result' = Returned("crates", r.status, NullV, r.value, Drained,
                             fault)
    /\ UNCHANGED <<reader, readerFrame>>

\* ------------------------------------------------------- specification

Next ==
    \/ \E p \in Producers, q \in Producers : Clone(p, q)
    \/ \E p \in Producers, o \in Observations : Submit(p, o)
    \/ \E p \in Producers : SubmitWake(p)
    \/ \E p \in Producers : DropHandle(p)
    \/ \E f \in StoreFaults : WorkerRecv(f)
    \/ WorkerExit
    \/ Tick
    \/ \E f \in QueryFaults : StatsDownloads(f)
    \/ \E f \in QueryFaults : StatsHits(f)
    \/ \E f \in QueryFaults : StatsBandwidth(f)
    \/ \E w \in Windows, f \in QueryFaults : QueryDownloads(w, f)
    \/ \E w \in Windows, f \in QueryFaults : QueryHits(w, f)
    \/ \E w \in Windows, f \in QueryFaults : QueryBandwidth(w, f)
    \/ \E f \in QueryFaults : QueryCrates(f)

Spec == Init /\ [][Next]_vars

\* The threads are scheduled fairly: the worker takes its next turn, and a
\* parked send that can return does.
Fairness ==
    /\ WF_vars(\E f \in StoreFaults : WorkerRecv(f))
    /\ WF_vars(WorkerExit)
    /\ \A p \in Producers : WF_vars(SubmitWake(p))

\* The runs in which a send can park: more sends than the buffer holds.
FairInit == Init /\ run.sends > Capacity

\* The steps of the producers and of the worker. The reporting functions
\* only read the tables: they are left out of the runs checked for progress.
ChannelNext ==
    \/ \E p \in Producers, q \in Producers : Clone(p, q)
    \/ \E p \in Producers, o \in Observations : Submit(p, o)
    \/ \E p \in Producers : SubmitWake(p)
    \/ \E p \in Producers : DropHandle(p)
    \/ \E f \in StoreFaults : WorkerRecv(f)
    \/ WorkerExit

FairSpec == FairInit /\ [][ChannelNext]_vars /\ Fairness

\* ------------------------------------------------- what the claims speak of

\* The observations add_request has returned for, while the worker has not
\* panicked: the accepted ones the buffer no longer holds.
Handled == SubSeq(accepted, 1, Len(accepted) - Len(queue))

NamesOf(obs) == { obs[i].name : i \in 1..Len(obs) }

PairsOf(obs) == { <<obs[i].name, obs[i].version>> : i \in 1..Len(obs) }

CrateNames == { crates[i].name : i \in 1..Len(crates) }

\* The crates row a crate_versions row refers to.
CrateOf(v) ==
    CHOOSE c \in { crates[i] : i \in 1..Len(crates) } : c.id = v.crate_id

VersionPairs ==
    { <<CrateOf(crate_versions[i]).name, crate_versions[i].version>> :
          i \in 1..Len(crate_versions) }

\* The observation a downloads row records.
RowObservation(row) ==
    LET v == CHOOSE x \in { crate_versions[i] : i \in 1..Len(crate_versions) } :
                 x.id = row.version_id
    IN Obs(CrateOf(v).name, v.version, row.hit, row.size)

Count(seq, x) == Cardinality({ i \in 1..Len(seq) : seq[i] = x })

RowCount(o) ==
    Cardinality({ i \in 1..Len(downloads) : RowObservation(downloads[i]) = o })

\* The row's time is later than (t - window), the window in hours.
TimeLater(row, t, window) == row.time.v * HoursPerDay > t - window.v

InWindow(window) == SelectSeq(downloads, LAMBDA r : TimeLater(r, now, window))

HitsOf(seq) == SelectSeq(seq, LAMBDA x : x.hit)

\* A reporting call returned in the last step and none of its queries failed.
Reported(op) ==
    result.op = op /\ result.status = "ok" /\ result.fault = "none"

\* ------------------------------------------------------------------ claims

\* C1: every Statistics value stats() returns, and so every one it returns
\* once the worker has drained the queue, has downloads = hits + misses.
C1_DownloadsAreHitsPlusMisses ==
    (result.op = "stats" /\ result.status = "ok")
        => result.value.downloads = result.value.hits + result.value.misses

\* stats() returned with a hit and a miss recorded and the queue drained.
C1_Witness ==
    /\ result.op = "stats" /\ result.status = "ok"
    /\ result.quiet /\ Drained
    /\ result.value.hits = 1 /\ result.value.misses = 1

\* C2: after any sequence of add_request calls that returned, crates holds
\* exactly one row per crate name seen, crate_versions exactly one row per
\* (crate, version) pair seen, and downloads one row per call.
C2_OneRowPerNamePairAndCall ==
    worker # "panicked" =>
        /\ CrateNames = NamesOf(Handled)
        /\ Len(crates) = Cardinality(NamesOf(Handled))
        /\ VersionPairs = PairsOf(Handled)
        /\ Len(crate_versions) = Cardinality(PairsOf(Handled))
        /\ Len(downloads) = Len(Handled)

\* The part of C2 about the two dimension tables.
DimensionRowsExact ==
    worker # "panicked" =>
        /\ CrateNames = NamesOf(Handled)
        /\ Len(crates) = Cardinality(NamesOf(Handled))
        /\ VersionPairs = PairsOf(Handled)
        /\ Len(crate_versions) = Cardinality(PairsOf(Handled))

\* C3: a send made with 10 observations buffered and the worker alive returns
\* no error: it parks, and when it wakes with a slot free it buffers its
\* observation. A send returns an error only when the worker has stopped.
C3_ErrorOnlyWhenStopped ==
    (result.op = "send" /\ result.status = "err") => worker # "running"

C3_FullQueueParks ==
    (submitsLeft' # submitsLeft /\ Len(queue) = Capacity
        /\ worker = "running")
    => /\ \E p \in Producers : pstate[p] = "idle" /\ pstate'[p] = "blocked"
       /\ result' = NoResult
       /\ queue' = queue

C3_WakeBuffers ==
    \A p \in Producers :
        (pstate[p] = "blocked" /\ pstate'[p] # "blocked"
            /\ worker = "running")
        => /\ Len(queue) < Capacity
           /\ queue' = Append(queue, pending[p])
           /\ result'.op = "send" /\ result'.status = "ok"

C3_SubmitBlocksNotErrors ==
    /\ []C3_ErrorOnlyWhenStopped
    /\ [][C3_FullQueueParks /\ C3_WakeBuffers]_vars

\* A send is parked on the full buffer of a running worker.
C3_Witness ==
    /\ worker = "running"
    /\ Len(queue) = Capacity
    /\ \E p \in Producers : pstate[p] = "blocked"

\* C4: once the worker has stopped, every observation whose send returned Ok
\* is recorded by exactly one downloads row.
C4_RecordedExactlyOnce ==
    worker # "running" =>
        \A o \in Observations : RowCount(o) = Count(accepted, o)

\* C5: when a statement of add_request fails, the worker stays running.
C5_WorkerSurvivesFailure ==
    (result.op = "add_request" /\ result.fault # "none")
        => worker = "running"

\* C6: stats() called after the worker has drained observations that all lie
\* in the window returns their number, the number of hits, the number of
\* misses and the bytes of the hits.
C6_StatsCountsObservations ==
    (Reported("stats") /\ result.quiet /\ Drained
        /\ InWindow(StatsWindow) = downloads)
    => result.value =
           [downloads |-> Len(accepted),
            hits |-> Len(HitsOf(accepted)),
            misses |-> Len(accepted) - Len(HitsOf(accepted)),
            bandwidth_saved |-> SumSizes(HitsOf(accepted))]

\* C7: downloads(window) and hits(window) count, and bandwidth_saved(window)
\* sums, exactly the rows whose time is later than (now - window).
C7_QueriesKeepToTheWindow ==
    /\ Reported("downloads")
           => result.value = Len(InWindow(result.window))
    /\ Reported("hits")
           => result.value = Len(HitsOf(InWindow(result.window)))
    /\ Reported("bandwidth_saved")
           => result.value = SumSizes(HitsOf(InWindow(result.window)))

\* C8: bandwidth_saved(window) returns 0 whenever no row with hit = true lies
\* in the window.
C8_NoHitInWindowIsZero ==
    (result.op = "bandwidth_saved" /\ result.fault = "none"
        /\ HitsOf(InWindow(result.window)) = <<>>)
    => result.status = "ok" /\ result.value = 0

\* C9: crates() called after the worker has drained observations returns
\* exactly one row per distinct name submitted, and no other row.
C9_CratesListsSubmittedNames ==
    (result.op = "crates" /\ result.status = "ok" /\ Drained)
    => /\ NamesOf(result.value) = NamesOf(accepted)
       /\ Len(result.value) = Cardinality(NamesOf(accepted))

\* crates() returned three rows for three names.
C9_Witness ==
    /\ result.op = "crates" /\ result.status = "ok" /\ Drained
    /\ Len(result.value) = 3
    /\ Cardinality(NamesOf(accepted)) = 3

\* C10: once the worker has stopped, a send returns an error, buffers nothing
\* and does not park, and a send parked before can return.
C10_SendAfterStop ==
    worker # "running" =>
        /\ result.op = "send" => result.status = "err"
        /\ \A p \in Producers :
               pstate[p] = "blocked" => ENABLED SubmitWake(p)

C10_NothingAcceptedAfterStop ==
    worker # "running" =>
        /\ accepted' = accepted
        /\ queue' = queue
        /\ \A p \in Producers :
               pstate[p] # "blocked" => pstate'[p] # "blocked"

C10_SubmitFailsOnceStopped ==
    /\ []C10_SendAfterStop
    /\ [][C10_NothingAcceptedAfterStop]_vars

\* A send returned an error after the worker had panicked.
C10_Witness ==
    /\ worker = "panicked"
    /\ result.op = "send" /\ result.status = "err"

\* C11: a count or sum query that fails is returned to the caller as an error:
\* downloads, hits, bandwidth_saved and stats do not return a value, with 0
\* in the place of the failed query, as a call without a failure does.
C11_FailedQueryIsAnError ==
    (result.op \in {"stats", "downloads", "hits", "bandwidth_saved"}
        /\ result.fault = "query")
    => result.status # "ok"

\* The observations the downloads rows record, in the order of the rows.
Recorded == [i \in 1..Len(downloads) |-> RowObservation(downloads[i])]

\* s can be had from t by leaving elements out.
RECURSIVE IsSubsequence(_, _)
IsSubsequence(s, t) ==
    IF s = <<>> THEN TRUE
    ELSE IF t = <<>> THEN FALSE
    ELSE IF Head(s) = Head(t) THEN IsSubsequence(Tail(s), Tail(t))
    ELSE IsSubsequence(s, Tail(t))

\* C12: the downloads rows are appended in the order in which the sends
\* returned Ok. A producer's sends return one after the other, so when a was
\* sent before b by one producer, the row of a comes before the row of b: the
\* rows record a subsequence of the accepted observations, and of those
\* add_request has returned for while the worker has not panicked.
C12_RowsInSubmitOrder ==
    /\ IsSubsequence(Recorded, accepted)
    /\ worker # "panicked" => IsSubsequence(Recorded, Handled)

\* Two sends of one producer, of different observations, both recorded.
C12_Witness ==
    /\ pstate["p2"] = "none"
    /\ Len(accepted) >= 2
    /\ accepted[1] # accepted[2]
    /\ Recorded = SubSeq(accepted, 1, 2)

\* C13: the worker never stops while an observation is still pending: in the
\* step in which it leaves "running" the buffer, which holds an observation
\* until add_request has returned for it, is empty.
C13_StopsOnlyWhenDrained ==
    [][(worker = "running" /\ worker' # "running") => queue = <<>>]_vars

\* C14: in every state in which a producer holds a SyncSender the worker is
\* running.
C14_RunningWhileHandleHeld == HandleHeld => worker = "running"

\* C15: the buffer never holds more than 10 observations, however many
\* producers send.
C15_AtMostCapacityPending == Len(queue) <= Capacity

\* The buffer is full with two producers holding a SyncSender, one of them
\* parked in send.
C15_Witness ==
    /\ Len(queue) = Capacity
    /\ pstate["p1"] \in {"idle", "blocked"}
    /\ pstate["p2"] \in {"idle", "blocked"}
    /\ \E p \in Producers : pstate[p] = "blocked"

\* C16: add_request returns Ok only if it appended exactly one downloads row,
\* the row of its observation; when the INSERT INTO downloads fails it
\* returns an error.
C16_OkOnlyIfRowAppended ==
    [][(result'.op = "add_request" /\ result'.status = "ok")
          => /\ result'.fault = "none"
             /\ Len(downloads') = Len(downloads) + 1
             /\ Recorded'[Len(downloads')] = result'.value]_vars

\* s is what t begins with.
IsPrefix(s, t) == Len(s) <= Len(t) /\ SubSeq(t, 1, Len(s)) = s

VersionsSeen == { o.version : o \in Observations }

\* C17: the three tables are append-only. Every step, and so every
\* add_request, keeps every row of crates, crate_versions and downloads as it
\* is and in its place, and adds rows only at the end; the id found for a name
\* and the id found for a (crate, version) pair, once found, stay the same.
C17_TablesAppendOnly ==
    [][\/ UNCHANGED tables
       \/ /\ IsPrefix(crates, crates')
          /\ IsPrefix(crate_versions, crate_versions')
          /\ IsPrefix(downloads, downloads')
          /\ \A o \in Observations :
                 CrateId(crates, o.name).some
                     => CrateId(crates', o.name) = CrateId(crates, o.name)
          /\ \A c \in 1..Len(crates), v \in VersionsSeen :
                 VersionId(crate_versions, c, v).some
                     => VersionId(crate_versions', c, v)
                            = VersionId(crate_versions, c, v)]_vars

\* add_request returned for a (crate, version) pair recorded before, with
\* rows in the three tables.
C17_Witness ==
    /\ result.op = "add_request" /\ result.status = "ok"
    /\ result.fault = "none"
    /\ Len(downloads) = 3
    /\ Len(crate_versions) = 2
    /\ Len(crates) = 2
    /\ RowCount(result.value) = 2

\* C18: every Statistics value stats() returns with none of its queries
\* failed has hits <= downloads and misses >= 0, also when the worker appends
\* rows between the queries of the call.
C18_HitsAtMostDownloads ==
    Reported("stats")
        => /\ result.value.hits <= result.value.downloads
           /\ result.value.misses >= 0

\* The rows of crates with id c, and of crate_versions with id v.
CratesWithId(c) == { i \in 1..Len(crates) : crates[i].id = c }

VersionsWithId(v) == { i \in 1..Len(crate_versions) : crate_versions[i].id = v }

\* C19: every downloads row's version_id is the id of one crate_versions row
\* and every crate_versions row's crate_id is the id of one crates row; the
\* row add_request appends for an observation refers to the crate_versions
\* row of the observation's version, which refers to the crates row of the
\* observation's name.
C19_ReferencesResolve ==
    /\ \A i \in 1..Len(downloads) :
           Cardinality(VersionsWithId(downloads[i].version_id)) = 1
    /\ \A i \in 1..Len(crate_versions) :
           Cardinality(CratesWithId(crate_versions[i].crate_id)) = 1
    /\ (result.op = "add_request" /\ result.status = "ok"
           /\ result.fault = "none")
       => \E i \in VersionsWithId(downloads[Len(downloads)].version_id) :
              /\ crate_versions[i].version = result.value.version
              /\ \E j \in CratesWithId(crate_versions[i].crate_id) :
                     crates[j].name = result.value.name

\* add_request appended a row for the first of two versions of a crate, with
\* a row of the second version before it.
C19_Witness ==
    /\ result.op = "add_request" /\ result.status = "ok"
    /\ result.fault = "none"
    /\ Len(crates) = 1
    /\ Len(crate_versions) = 2
    /\ Len(downloads) = 3
    /\ downloads[2].version_id = 2
    /\ downloads[3].version_id = 1

\* C20: no send stays parked for ever. Under fair scheduling a producer
\* parked on the full buffer returns: with Ok once the worker has freed a
\* slot, with an error once the worker has stopped.
C20_ParkedSendReturns ==
    \A p \in Producers : (pstate[p] = "blocked") ~> (pstate[p] # "blocked")

\* A send that had parked returned Ok while the worker was running.
C20_Witness ==
    /\ result.op = "send" /\ result.status = "ok"
    /\ "parked" \in DOMAIN result
    /\ worker = "running"

====
